---- MODULE Spec2Model ----
(***************************************************************************)
(* Model of the opensea client library (package opensea).                  *)
(*                                                                         *)
(* The repository holds three revisions of the client file:                *)
(*   src/opensea-client.go   (the named, most recent revision)             *)
(*   src/unnamed/part_000    (an earlier revision)                         *)
(*   src/unnamed/part_001    (the earliest revision)                       *)
(* Each revision declares the same package-level symbols, so the model     *)
(* carries the revision in the variable rev and gives every revision its   *)
(* own translation of Encode and of the request path.  Definitions without *)
(* a suffix are translated from src/opensea-client.go.                     *)
(*                                                                         *)
(* Two specifications:                                                     *)
(*   SpecEncode  the query encoder GetAssetsParams.Encode, applied to      *)
(*               every parameter record of a bounded set;                  *)
(*   Spec        one call of an exposed request method on a constructed    *)
(*               client, against every outcome of the HTTP transport.      *)
(* Writes to standard output (fmt.Println) are not modelled.  The client   *)
(* is never changed after construction: SetHttpClient of the two earlier   *)
(* revisions has a value receiver and assigns to a copy.                   *)
(***************************************************************************)
EXTENDS Integers, Sequences, FiniteSets, TLC

VARIABLES
    rev,      \* the revision of the client file in effect
    o,        \* the Opensea client value: API, APIKey
    pc,       \* "idle" before the call, "done" after it
    call,     \* the call made: method, arguments, transport outcomes
    reqs,     \* the HTTP requests issued during the call, in order
    result,   \* what the call returned: ret, err, or a panic
    p,        \* SpecEncode: the GetAssetsParams record
    q         \* SpecEncode: the string returned by p.Encode()

vars == <<rev, o, pc, call, reqs, result, p, q>>

RevClient == "opensea-client.go"
Rev000 == "part_000"
Rev001 == "part_001"
Revisions == {RevClient, Rev000, Rev001}

(***************************************************************************)
(* Bounds of the model.                                                    *)
(***************************************************************************)
MaxAddrs == 2      \* longest AssetContractAddresses list
MaxTokenIDs == 1   \* longest TokenIDs list

(***************************************************************************)
(* Address (types file of the package, not among the sources): a string    *)
(* type with the all-zero address as its null sentinel.                    *)
(***************************************************************************)
NullAddress == "0x0000000000000000000000000000000000000000"

AddressString(a) == a

Addresses == {"", NullAddress, "0xa1", "0xb2"}
ListAddresses == {"", NullAddress, "0xa1"}
TokenIDValues == {7}

(***************************************************************************)
(* Go values: a pointer field is <<>> (nil) or <<v>>; a slice is a record  *)
(* telling nil from empty.                                                 *)
(***************************************************************************)
SeqsUpTo(S, n) == UNION {[1..k -> S] : k \in 0..n}

NilSlice == [isNil |-> TRUE, elems |-> <<>>]
Slices(S, n) == {NilSlice} \cup {[isNil |-> FALSE, elems |-> e] : e \in SeqsUpTo(S, n)}
Pointers(S) == {<<>>} \cup {<<v>> : v \in S}

\* GetAssetsParams of src/opensea-client.go
GetAssetsParams ==
    [Owner : Addresses,
     TokenIDs : Slices(TokenIDValues, MaxTokenIDs),
     Collection : {"", "c1"},
     CollectionSlug : {"", "s1"},
     CollectionEditor : {"", "e1"},
     OrderDirection : {"", "desc"},
     AssetContractAddress : Addresses,
     AssetContractAddresses : Slices(ListAddresses, MaxAddrs),
     Cursor : Pointers({0, 1}),
     Limit : Pointers({0, 1}),
     IncludeOrders : Pointers(BOOLEAN)]

\* GetAssetsParams of src/unnamed/part_000 and src/unnamed/part_001
GetAssetsParams_old ==
    [Owner : Addresses,
     TokenIDs : Slices(TokenIDValues, MaxTokenIDs),
     AssetContractAddress : Addresses,
     AssetContractAddresses : Slices(ListAddresses, MaxAddrs),
     OrderBy : {"", "sale_date"},
     OrderDirection : {"", "desc"},
     Offset : {0, 1},
     Limit : {0, 1},
     Collection : {"", "c1"}]

(***************************************************************************)
(* url.Values: a map from key to the list of its values.                   *)
(***************************************************************************)
SortedKeys ==
    <<"asset_contract_address", "asset_contract_addresses", "collection",
      "collection_editor", "collection_slug", "cursor", "include_orders",
      "limit", "offset", "order_by", "order_direction", "owner", "token_ids">>

Keys == {SortedKeys[i] : i \in 1..Len(SortedKeys)}

EmptyValues == [k \in Keys |-> <<>>]

Set(v, key, value) == [v EXCEPT ![key] = <<value>>]
Add(v, key, value) == [v EXCEPT ![key] = Append(@, value)]
Del(v, key) == [v EXCEPT ![key] = <<>>]

\* url.QueryEscape on the values the model produces: digits, letters, "-"
\* and "_" are kept; "%", "!", "(", "=", ")" are percent-encoded.
QueryEscape(s) ==
    CASE s = "%!d(string=)" -> "%25%21d%28string%3D%29"
      [] s = "%!d(string=0xa1)" -> "%25%21d%28string%3D0xa1%29"
      [] s = "%!d(string=0xb2)" -> "%25%21d%28string%3D0xb2%29"
      [] s = "%!d(string=" \o NullAddress \o ")"
            -> "%25%21d%28string%3D" \o NullAddress \o "%29"
      [] OTHER -> s

EscapeAll(key, vs) == [i \in 1..Len(vs) |-> <<key, QueryEscape(vs[i])>>]

RECURSIVE EncodeFrom(_, _)
EncodeFrom(v, i) ==
    IF i > Len(SortedKeys) THEN <<>>
    ELSE EscapeAll(SortedKeys[i], v[SortedKeys[i]]) \o EncodeFrom(v, i + 1)

\* Values.Encode: "key=value" pairs joined by "&", sorted by key; the
\* string is kept as the sequence of its <<key, escaped value>> pairs.
ValuesEncode(v) == EncodeFrom(v, 1)

(***************************************************************************)
(* Formatting.                                                             *)
(***************************************************************************)
SprintfD(n) == ToString(n)                       \* fmt.Sprintf("%d", int)
SprintfD_string(s) == "%!d(string=" \o s \o ")"  \* fmt.Sprintf("%d", string)
SprintfV_bool(b) == IF b THEN "true" ELSE "false"
FormatBool(b) == IF b THEN "true" ELSE "false"

ParseBool(s) ==
    IF s \in {"1", "t", "T", "TRUE", "true", "True"}
        THEN [value |-> TRUE, err |-> FALSE]
    ELSE IF s \in {"0", "f", "F", "FALSE", "false", "False"}
        THEN [value |-> FALSE, err |-> FALSE]
    ELSE [value |-> FALSE, err |-> TRUE]

RECURSIVE AddEach(_, _, _, _)
\* q.Add(key, f(elems[i])) for i from i0 to the end of elems
AddEach(v, key, strs, i0) ==
    IF i0 > Len(strs) THEN v
    ELSE AddEach(Add(v, key, strs[i0]), key, strs, i0 + 1)

MapSprintfD(ns) == [i \in 1..Len(ns) |-> SprintfD(ns[i])]

(***************************************************************************)
(* GetAssetsParams.Encode, src/opensea-client.go                           *)
(***************************************************************************)
RECURSIVE AddAddresses(_, _, _)
\* the loop over p.AssetContractAddresses
AddAddresses(v, elems, i) ==
    IF i > Len(elems) THEN v
    ELSE IF AddressString(elems[i]) # "" /\ elems[i] # NullAddress
        THEN AddAddresses(Add(v, "asset_contract_addresses", AddressString(elems[i])),
                          elems, i + 1)
    ELSE AddAddresses(v, elems, i + 1)

EncodeValues(pp) ==
    LET q0 == EmptyValues
        q1 == IF AddressString(pp.Owner) # "" /\ pp.Owner # NullAddress
                  THEN Set(q0, "owner", AddressString(pp.Owner)) ELSE q0
        q2 == IF ~pp.TokenIDs.isNil /\ Len(pp.TokenIDs.elems) > 0
                  THEN AddEach(q1, "token_ids", MapSprintfD(pp.TokenIDs.elems), 1)
                  ELSE q1
        q3 == IF pp.Collection # "" THEN Set(q2, "collection", pp.Collection) ELSE q2
        q4 == IF pp.CollectionSlug # ""
                  THEN Set(q3, "collection_slug", pp.Collection) ELSE q3
        q5 == IF pp.CollectionEditor # ""
                  THEN Set(q4, "collection_editor", pp.Collection) ELSE q4
        q6 == IF pp.OrderDirection # ""
                  THEN Set(q5, "order_direction", pp.OrderDirection) ELSE q5
        q7 == IF AddressString(pp.AssetContractAddress) # ""
                 /\ pp.AssetContractAddress # NullAddress
                  THEN Set(q6, "asset_contract_address",
                           AddressString(pp.AssetContractAddress))
                  ELSE q6
        q8 == Del(q7, "asset_contract_addresses")
        q9 == IF ~pp.AssetContractAddresses.isNil
                 /\ Len(pp.AssetContractAddresses.elems) > 0
                  THEN AddAddresses(q8, pp.AssetContractAddresses.elems, 1) ELSE q8
        q10 == IF pp.Cursor # <<>> /\ pp.Cursor[1] > 0
                  THEN Set(q9, "cursor", SprintfD(pp.Cursor[1])) ELSE q9
        q11 == IF pp.Limit # <<>> /\ pp.Limit[1] > 0
                  THEN Set(q10, "limit", SprintfD(pp.Limit[1])) ELSE q10
        q12 == IF pp.IncludeOrders # <<>>
                  THEN LET parsed == ParseBool(SprintfV_bool(pp.IncludeOrders[1]))
                       IN  IF parsed.err
                               THEN Set(q11, "include_orders", FormatBool(parsed.value))
                               ELSE q11
                  ELSE q11
    IN  q12

Encode(pp) == ValuesEncode(EncodeValues(pp))

(***************************************************************************)
(* GetAssetsParams.Encode, src/unnamed/part_000                            *)
(***************************************************************************)
EncodeValues_part_000(pp) ==
    LET q0 == EmptyValues
        q1 == IF AddressString(pp.Owner) # "" /\ pp.Owner # NullAddress
                  THEN Set(q0, "owner", AddressString(pp.Owner)) ELSE q0
        q2 == IF ~pp.TokenIDs.isNil /\ Len(pp.TokenIDs.elems) > 0
                  THEN AddEach(q1, "token_ids", MapSprintfD(pp.TokenIDs.elems), 1)
                  ELSE q1
        q3 == IF AddressString(pp.AssetContractAddress) # ""
                 /\ pp.AssetContractAddress # NullAddress
                  THEN Set(q2, "asset_contract_address",
                           AddressString(pp.AssetContractAddress))
                  ELSE q2
        q4 == Del(q3, "asset_contract_addresses")
        q5 == IF ~pp.AssetContractAddresses.isNil
                 /\ Len(pp.AssetContractAddresses.elems) > 0
                  THEN AddAddresses(q4, pp.AssetContractAddresses.elems, 1) ELSE q4
        q6 == IF pp.OrderBy # "" THEN Set(q5, "order_by", pp.OrderBy) ELSE q5
        q7 == IF pp.OrderDirection # ""
                  THEN Set(q6, "order_direction", pp.OrderDirection) ELSE q6
        q8 == IF pp.Collection # "" THEN Set(q7, "collection", pp.Collection) ELSE q7
        q9 == Set(q8, "limit", SprintfD(pp.Limit))
        q10 == Set(q9, "offset", SprintfD(pp.Offset))
        q11 == Set(q10, "include_orders", "false")
    IN  q11

Encode_part_000(pp) == ValuesEncode(EncodeValues_part_000(pp))

(***************************************************************************)
(* GetAssetsParams.Encode, src/unnamed/part_001                            *)
(***************************************************************************)
RECURSIVE AddAddresses_part_001(_, _, _)
AddAddresses_part_001(v, elems, i) ==
    IF i > Len(elems) THEN v
    ELSE IF elems[i] # NullAddress
        THEN AddAddresses_part_001(
                 Add(v, "asset_contract_addresses",
                     SprintfD_string(AddressString(elems[i]))),
                 elems, i + 1)
    ELSE AddAddresses_part_001(v, elems, i + 1)

EncodeValues_part_001(pp) ==
    LET q0 == EmptyValues
        q1 == IF pp.AssetContractAddress # NullAddress
                  THEN Set(q0, "owner", AddressString(pp.Owner)) ELSE q0
        q2 == IF ~pp.TokenIDs.isNil /\ Len(pp.TokenIDs.elems) > 0
                  THEN AddEach(q1, "token_ids", MapSprintfD(pp.TokenIDs.elems), 1)
                  ELSE q1
        q3 == IF pp.AssetContractAddress # NullAddress
                  THEN Set(q2, "asset_contract_address",
                           AddressString(pp.AssetContractAddress))
                  ELSE q2
        q4 == Del(q3, "asset_contract_addresses")
        q5 == IF ~pp.AssetContractAddresses.isNil
                 /\ Len(pp.AssetContractAddresses.elems) > 0
                  THEN AddAddresses_part_001(q4, pp.AssetContractAddresses.elems, 1)
                  ELSE q4
        q6 == IF pp.OrderBy # "" THEN Set(q5, "order_by", pp.OrderBy) ELSE q5
        q7 == IF pp.OrderDirection # ""
                  THEN Set(q6, "order_direction", pp.OrderDirection) ELSE q6
        q8 == IF pp.Collection # "" THEN Set(q7, "collection", pp.Collection) ELSE q7
        q9 == Set(q8, "limit", SprintfD(pp.Limit))
        q10 == Set(q9, "offset", SprintfD(pp.Offset))
    IN  q10

Encode_part_001(pp) == ValuesEncode(EncodeValues_part_001(pp))

\* the Encode of the revision in effect
EncodeOf(r, pp) ==
    CASE r = RevClient -> Encode(pp)
      [] r = Rev000 -> Encode_part_000(pp)
      [] r = Rev001 -> Encode_part_001(pp)

ParamsOf(r) == IF r = RevClient THEN GetAssetsParams ELSE GetAssetsParams_old

(***************************************************************************)
(* The client.                                                             *)
(***************************************************************************)
mainnetAPI == "https://api.opensea.io"
rinkebyAPI == "https://rinkeby-api.opensea.io"

NewOpensea(apiKey) == [API |-> mainnetAPI, APIKey |-> apiKey]
NewOpenseaRinkeby(apiKey) == [API |-> rinkebyAPI, APIKey |-> apiKey]

ApiKeys == {"key-A", "key-B"}

\* the key written into getURLTest and into GetAssetsTest of part_000
HardCodedKey == "ad9d3916aa3a409f92a3bbd6aff78e8d"

StatusOK == 200    \* http.StatusOK

(***************************************************************************)
(* error values: nil, or a kind with the parts of its message.             *)
(***************************************************************************)
NoErr == [isNil |-> TRUE, kind |-> "", msg |-> <<>>]
Err(kind, msg) == [isNil |-> FALSE, kind |-> kind, msg |-> msg]

\* errorResponse.Error
errorResponse_Error == "Not success"

\* a *errorResponse returned as the error
ErrorResponseErr == Err("errorResponse", <<errorResponse_Error>>)

\* fmt.Errorf("backend returns status %d msg: %s", status, body)
Errorf(status, body) ==
    Err("fmt.Errorf", <<"backend returns status ", SprintfD(status), " msg: ", body>>)

\* errors made outside the package (net/http, net/url, io, encoding/json)
NilContextErr == Err("http.NewRequest", <<"net/http: nil Context">>)
URLParseErr == Err("url.Error", <<"net/url: invalid control character in URL">>)
DialErr == Err("transport", <<"dial tcp: connect: connection refused">>)
CanceledErr == Err("transport", <<"context canceled">>)
ReadErr == Err("io", <<"unexpected EOF">>)
SyntaxErr == Err("json.SyntaxError",
                 <<"invalid character 'o' looking for beginning of value">>)
EndOfInputErr == Err("json.SyntaxError", <<"unexpected end of JSON input">>)
TypeErr == Err("json.UnmarshalTypeError",
               <<"json: cannot unmarshal string into Go value">>)

(***************************************************************************)
(* The transport: what one round trip gives.  kind "error": Do fails.      *)
(* kind "response": a status and the bytes ReadAll returns; readOK FALSE   *)
(* means ReadAll also returns an error.                                    *)
(***************************************************************************)
BodyAssets == "{\"assets\":[]}"
BodyFail == "{\"success\": false}"
BodySuccess == "{\"success\": true}"
BodyOops == "oops"
BodyQuotedOops == "\"oops\""
BodyEmpty == ""

Bodies == {BodyAssets, BodyFail, BodySuccess, BodyOops, BodyQuotedOops, BodyEmpty}
Statuses == {200, 201, 404, 500}

TransportError == [kind |-> "error", status |-> 0, body |-> "", readOK |-> TRUE]
Responses == [kind : {"response"}, status : Statuses, body : Bodies, readOK : BOOLEAN]
Outcomes == {TransportError} \cup Responses

\* json.Unmarshal(body, e) with e a *errorResponse
UnmarshalEnvelope(body) ==
    CASE body = BodySuccess -> [err |-> NoErr, Success |-> TRUE]
      [] body \in {BodyFail, BodyAssets} -> [err |-> NoErr, Success |-> FALSE]
      [] body = BodyOops -> [err |-> SyntaxErr, Success |-> FALSE]
      [] body = BodyQuotedOops -> [err |-> TypeErr, Success |-> FALSE]
      [] body = BodyEmpty -> [err |-> EndOfInputErr, Success |-> FALSE]

\* json.Unmarshal(body, ret) with ret a *AssetResponse or a *Asset: fields
\* the target does not have are skipped.
UnmarshalTarget(body) ==
    CASE body = BodyAssets -> [err |-> NoErr, value |-> "{assets: []}"]
      [] body \in {BodyFail, BodySuccess} -> [err |-> NoErr, value |-> "{}"]
      [] body = BodyOops -> [err |-> SyntaxErr, value |-> "{}"]
      [] body = BodyQuotedOops -> [err |-> TypeErr, value |-> "{}"]
      [] body = BodyEmpty -> [err |-> EndOfInputErr, value |-> "{}"]

(***************************************************************************)
(* Requests.                                                               *)
(***************************************************************************)
Contexts == {"nil", "live", "canceled"}

\* strings holding an ASCII control character
ControlCharStrings == {"0x\n"}

\* url.Parse inside http.NewRequest: fails on a control character
URLParses(url) == \A i \in 1..Len(url.path) : url.path[i] \notin ControlCharStrings

Header(apiKey) == ("Accept" :> "application/json") @@ ("X-API-KEY" :> apiKey)

Request(url, apiKey, client) ==
    [method |-> "GET", url |-> url, header |-> Header(apiKey), client |-> client]

NilBody == <<>>
Return(body, err, rs) == [body |-> body, err |-> err, reqs |-> rs, panic |-> FALSE]
Panic(rs) == [body |-> NilBody, err |-> NoErr, reqs |-> rs, panic |-> TRUE]

\* StatusErr with the test of e.Success inverted
StatusErr_SuccessInverted(env) ==
    LET e == UnmarshalEnvelope(env.body)
    IN  IF ~e.err.isNil THEN e.err
        ELSE IF e.Success THEN ErrorResponseErr
        ELSE Errorf(env.status, env.body)

\* the branch of getURL taken when resp.StatusCode != http.StatusOK
StatusErr(env) ==
    LET e == UnmarshalEnvelope(env.body)
    IN  IF ~e.err.isNil THEN e.err
        ELSE IF ~e.Success THEN ErrorResponseErr
        ELSE Errorf(env.status, env.body)

\* getURL taking every status from 200 to 299 as a success
getURL_Any2xx(oo, ctx, url, env) ==
    IF ctx = "nil" THEN Return(NilBody, NilContextErr, <<>>)
    ELSE IF ~URLParses(url) THEN Return(NilBody, URLParseErr, <<>>)
    ELSE LET req == Request(url, oo.APIKey, "o.httpClient")
         IN  IF ctx = "canceled" THEN Return(NilBody, CanceledErr, <<req>>)
             ELSE IF env.kind = "error" THEN Return(NilBody, DialErr, <<req>>)
             ELSE IF ~env.readOK THEN Return(NilBody, ReadErr, <<req>>)
             ELSE IF env.status < StatusOK \/ env.status > 299
                 THEN Return(NilBody, StatusErr(env), <<req>>)
             ELSE Return(<<env.body>>, NoErr, <<req>>)

\* Opensea.getURL, src/opensea-client.go
getURL(oo, ctx, url, env) ==
    IF ctx = "nil" THEN Return(NilBody, NilContextErr, <<>>)
    ELSE IF ~URLParses(url) THEN Return(NilBody, URLParseErr, <<>>)
    ELSE LET req == Request(url, oo.APIKey, "o.httpClient")
         IN  IF ctx = "canceled" THEN Return(NilBody, CanceledErr, <<req>>)
             ELSE IF env.kind = "error" THEN Return(NilBody, DialErr, <<req>>)
             ELSE IF ~env.readOK THEN Return(NilBody, ReadErr, <<req>>)
             ELSE IF env.status # StatusOK
                 THEN Return(NilBody, StatusErr(env), <<req>>)
             ELSE Return(<<env.body>>, NoErr, <<req>>)

\* Opensea.getURL, src/unnamed/part_000: the same statements
getURL_part_000(oo, ctx, url, env) ==
    IF ctx = "nil" THEN Return(NilBody, NilContextErr, <<>>)
    ELSE IF ~URLParses(url) THEN Return(NilBody, URLParseErr, <<>>)
    ELSE LET req == Request(url, oo.APIKey, "o.httpClient")
         IN  IF ctx = "canceled" THEN Return(NilBody, CanceledErr, <<req>>)
             ELSE IF env.kind = "error" THEN Return(NilBody, DialErr, <<req>>)
             ELSE IF ~env.readOK THEN Return(NilBody, ReadErr, <<req>>)
             ELSE IF env.status # StatusOK
                 THEN Return(NilBody, StatusErr(env), <<req>>)
             ELSE Return(<<env.body>>, NoErr, <<req>>)

\* Opensea.getURL, src/unnamed/part_001: the error of NewRequestWithContext
\* is overwritten, and req is nil when it failed
getURL_part_001(oo, ctx, url, env) ==
    IF ctx = "nil" \/ ~URLParses(url) THEN Panic(<<>>)
    ELSE LET req == Request(url, oo.APIKey, "o.httpClient")
         IN  IF ctx = "canceled" THEN Return(NilBody, CanceledErr, <<req>>)
             ELSE IF env.kind = "error" THEN Return(NilBody, DialErr, <<req>>)
             ELSE IF ~env.readOK THEN Return(NilBody, ReadErr, <<req>>)
             ELSE IF env.status # StatusOK
                 THEN Return(NilBody, StatusErr(env), <<req>>)
             ELSE Return(<<env.body>>, NoErr, <<req>>)

\* Opensea.getURLTest, src/opensea-client.go: every error is dropped, ctx
\* is not used, the status is not read
getURLTest(oo, ctx, url, env) ==
    IF ~URLParses(url) THEN Panic(<<>>)
    ELSE LET req == Request(url, HardCodedKey, "http.DefaultClient")
         IN  IF env.kind = "error" THEN Panic(<<req>>)
             ELSE Return(<<env.body>>, NoErr, <<req>>)

\* GetAssetsTest, src/unnamed/part_000: a package function with a fixed URL
GetAssetsTest_part_000(env) ==
    LET url == [api |-> mainnetAPI, path |-> <<"/api/v1/assets">>,
                query |-> <<<<"order_direction", "desc">>, <<"limit", "20">>>>]
        req == Request(url, HardCodedKey, "http.DefaultClient")
    IN  IF env.kind = "error" THEN Panic(<<req>>)
        ELSE Return(NilBody, NoErr, <<req>>)

getURLOf(r, oo, ctx, url, env) ==
    CASE r = RevClient -> getURL(oo, ctx, url, env)
      [] r = Rev000 -> getURL_part_000(oo, ctx, url, env)
      [] r = Rev001 -> getURL_part_001(oo, ctx, url, env)

\* o.API + path
URLOf(oo, path) == [api |-> oo.API, path |-> path.path, query |-> path.query]

GetPath(r, oo, ctx, path, env) == getURLOf(r, oo, ctx, URLOf(oo, path), env)
GetPathTest(oo, ctx, path, env) == getURLTest(oo, ctx, URLOf(oo, path), env)

(***************************************************************************)
(* The exposed request methods.  Each returns ret, err, whether the call   *)
(* panicked, and the requests it handed to an HTTP client.                 *)
(***************************************************************************)
NilRet == [isNil |-> TRUE, value |-> ""]
NewRet(value) == [isNil |-> FALSE, value |-> value]

\* the statements after GetPath: return nil, err on an error, otherwise
\* ret := new(T); return ret, json.Unmarshal(body, ret)
DecodeBody(g) ==
    IF g.panic THEN [ret |-> NilRet, err |-> NoErr, panic |-> TRUE, reqs |-> g.reqs]
    ELSE IF ~g.err.isNil
        THEN [ret |-> NilRet, err |-> g.err, panic |-> FALSE, reqs |-> g.reqs]
    ELSE LET d == UnmarshalTarget(g.body[1])
         IN  [ret |-> NewRet(d.value), err |-> d.err, panic |-> FALSE,
              reqs |-> g.reqs]

AssetsPath(r, params) == [path |-> <<"/api/v1/assets/">>, query |-> EncodeOf(r, params)]

GetAssetsWithContext(r, oo, ctx, params, env) ==
    DecodeBody(GetPath(r, oo, ctx, AssetsPath(r, params), env))

GetAssetsWithContextTest(oo, ctx, params, env) ==
    DecodeBody(GetPathTest(oo, ctx, AssetsPath(RevClient, params), env))

\* ctx := context.TODO()
GetAssets(r, oo, params, env) == GetAssetsWithContext(r, oo, "live", params, env)

\* GetAssets of src/unnamed/part_000 calls GetAssetsTest() first
GetAssets_part_000(oo, params, env0, env) ==
    LET t == GetAssetsTest_part_000(env0)
    IN  IF t.panic THEN DecodeBody(t)
        ELSE LET g == GetAssetsWithContext(Rev000, oo, "live", params, env)
             IN  [g EXCEPT !.reqs = t.reqs \o g.reqs]

GetAssetsTest(oo, params, env) == GetAssetsWithContextTest(oo, "live", params, env)

\* (*big.Int).String: decimal, "<nil>" for a nil pointer
BigIntString(tokenID) == IF tokenID = <<>> THEN "<nil>" ELSE ToString(tokenID[1])

\* fmt.Sprintf("/api/v1/asset/%s/%s", assetContractAddress, tokenID.String())
AssetPath(assetContractAddress, tokenID) ==
    [path |-> <<"/api/v1/asset/", assetContractAddress, "/", BigIntString(tokenID)>>,
     query |-> <<>>]

GetSingleAssetWithContext(r, oo, ctx, assetContractAddress, tokenID, env) ==
    DecodeBody(GetPath(r, oo, ctx, AssetPath(assetContractAddress, tokenID), env))

GetSingleAsset(r, oo, assetContractAddress, tokenID, env) ==
    GetSingleAssetWithContext(r, oo, "live", assetContractAddress, tokenID, env)

(***************************************************************************)
(* Inputs of the calls.                                                    *)
(***************************************************************************)
ZeroParams(r) ==
    IF r = RevClient
        THEN [Owner |-> "", TokenIDs |-> NilSlice, Collection |-> "",
              CollectionSlug |-> "", CollectionEditor |-> "", OrderDirection |-> "",
              AssetContractAddress |-> "", AssetContractAddresses |-> NilSlice,
              Cursor |-> <<>>, Limit |-> <<>>, IncludeOrders |-> <<>>]
        ELSE [Owner |-> "", TokenIDs |-> NilSlice, AssetContractAddress |-> "",
              AssetContractAddresses |-> NilSlice, OrderBy |-> "",
              OrderDirection |-> "", Offset |-> 0, Limit |-> 0, Collection |-> ""]

CallParams(r) ==
    {ZeroParams(r),
     [ZeroParams(r) EXCEPT !.Owner = "0xa1", !.OrderDirection = "desc",
                           !.TokenIDs = [isNil |-> FALSE, elems |-> <<7>>]]}

ContractAddressStrings == {"0xa1", "0x\n"}
TokenIDs == {<<>>, <<0>>, <<7>>}

\* the outcomes of the request GetAssetsTest() of part_000 makes
Outcomes0 == {TransportError,
              [kind |-> "response", status |-> 200, body |-> BodyAssets,
               readOK |-> TRUE]}

NoCall == [method |-> "", ctx |-> "live", params |-> <<>>, address |-> "",
           tokenID |-> <<>>, env0 |-> TransportError, env |-> TransportError]
NoResult == [ret |-> NilRet, err |-> NoErr, panic |-> FALSE]

(***************************************************************************)
(* Spec: a constructed client, then one call.                              *)
(***************************************************************************)
Init ==
    /\ rev \in Revisions
    /\ o \in {NewOpensea(k) : k \in ApiKeys} \cup {NewOpenseaRinkeby(k) : k \in ApiKeys}
    /\ pc = "idle"
    /\ call = NoCall
    /\ reqs = <<>>
    /\ result = NoResult
    /\ p = <<>>
    /\ q = <<>>

Returned(c, r) ==
    /\ pc' = "done"
    /\ call' = c
    /\ reqs' = r.reqs
    /\ result' = [ret |-> r.ret, err |-> r.err, panic |-> r.panic]
    /\ UNCHANGED <<rev, o, p, q>>

CallGetAssets ==
    /\ pc = "idle"
    /\ \E params \in CallParams(rev), env \in Outcomes,
          env0 \in IF rev = Rev000 THEN Outcomes0 ELSE {TransportError} :
          Returned([NoCall EXCEPT !.method = "GetAssets", !.params = params,
                                  !.env0 = env0, !.env = env],
                   IF rev = Rev000 THEN GetAssets_part_000(o, params, env0, env)
                   ELSE GetAssets(rev, o, params, env))

CallGetAssetsWithContext ==
    /\ pc = "idle"
    /\ \E ctx \in Contexts, params \in CallParams(rev), env \in Outcomes :
          Returned([NoCall EXCEPT !.method = "GetAssetsWithContext", !.ctx = ctx,
                                  !.params = params, !.env = env],
                   GetAssetsWithContext(rev, o, ctx, params, env))

CallGetAssetsTest ==
    /\ pc = "idle"
    /\ rev = RevClient
    /\ \E params \in CallParams(rev), env \in Outcomes :
          Returned([NoCall EXCEPT !.method = "GetAssetsTest", !.params = params,
                                  !.env = env],
                   GetAssetsTest(o, params, env))

CallGetAssetsWithContextTest ==
    /\ pc = "idle"
    /\ rev = RevClient
    /\ \E ctx \in Contexts, params \in CallParams(rev), env \in Outcomes :
          Returned([NoCall EXCEPT !.method = "GetAssetsWithContextTest",
                                  !.ctx = ctx, !.params = params, !.env = env],
                   GetAssetsWithContextTest(o, ctx, params, env))

CallGetSingleAsset ==
    /\ pc = "idle"
    /\ \E a \in ContractAddressStrings, t \in TokenIDs, env \in Outcomes :
          Returned([NoCall EXCEPT !.method = "GetSingleAsset", !.address = a,
                                  !.tokenID = t, !.env = env],
                   GetSingleAsset(rev, o, a, t, env))

CallGetSingleAssetWithContext ==
    /\ pc = "idle"
    /\ \E ctx \in Contexts, a \in ContractAddressStrings, t \in TokenIDs,
          env \in Outcomes :
          Returned([NoCall EXCEPT !.method = "GetSingleAssetWithContext",
                                  !.ctx = ctx, !.address = a, !.tokenID = t,
                                  !.env = env],
                   GetSingleAssetWithContext(rev, o, ctx, a, t, env))

Next ==
    \/ CallGetAssets
    \/ CallGetAssetsWithContext
    \/ CallGetAssetsTest
    \/ CallGetAssetsWithContextTest
    \/ CallGetSingleAsset
    \/ CallGetSingleAssetWithContext

Spec == Init /\ [][Next]_vars

(***************************************************************************)
(* SpecEncode: Encode applied to a parameter record.                       *)
(***************************************************************************)
InitEncode ==
    /\ rev \in Revisions
    /\ o = NewOpensea("key-A")
    /\ pc = "idle"
    /\ call = NoCall
    /\ reqs = <<>>
    /\ result = NoResult
    /\ p = <<>>
    /\ q = <<>>

CallEncode ==
    /\ pc = "idle"
    /\ \E pp \in ParamsOf(rev) :
          /\ p' = pp
          /\ q' = EncodeOf(rev, pp)
    /\ pc' = "encoded"
    /\ UNCHANGED <<rev, o, call, reqs, result>>

NextEncode == CallEncode

SpecEncode == InitEncode /\ [][NextEncode]_vars

(***************************************************************************)
(* Vocabulary of the properties.                                           *)
(***************************************************************************)
Done == pc = "done"
Encoded == pc = "encoded"

\* the list and single-asset calls, which go through getURL
ListAndSingleCalls ==
    {"GetAssets", "GetAssetsWithContext", "GetSingleAsset", "GetSingleAssetWithContext"}

\* the request methods named by C4
RequestMethods == ListAndSingleCalls \cup {"GetAssetsTest"}

Is2xx(status) == status >= 200 /\ status <= 299

SentByClient == \E i \in 1..Len(reqs) : reqs[i].client = "o.httpClient"

\* the client's own request was answered and the body was read in full
ResponseReceived ==
    /\ Done
    /\ call.method \in ListAndSingleCalls
    /\ SentByClient
    /\ call.ctx = "live"
    /\ call.env.kind = "response"
    /\ call.env.readOK

Contains(msg, part) == \E i \in 1..Len(msg) : msg[i] = part

\* the values the encoded query carries under key, in order
IsKey(key, pair) == pair[1] = key
PairsOf(key) == SelectSeq(q, LAMBDA pair : IsKey(key, pair))
ValuesOf(key) == [i \in 1..Len(PairsOf(key)) |-> PairsOf(key)[i][2]]
Emits(key) == Len(PairsOf(key)) > 0

\* an address field that is present and is not the null sentinel
Present(a) == AddressString(a) # "" /\ a # NullAddress

(***************************************************************************)
(* C1: a non-2xx response whose body does not decode to the envelope       *)
(* makes the list and single-asset calls return an error whose message     *)
(* contains the status code and the raw body text.                         *)
(***************************************************************************)
C1_OpaqueBodyErrorCarriesStatusAndBody ==
    (/\ ResponseReceived
     /\ ~Is2xx(call.env.status)
     /\ ~UnmarshalEnvelope(call.env.body).err.isNil)
    => /\ ~result.panic
       /\ ~result.err.isNil
       /\ Contains(result.err.msg, SprintfD(call.env.status))
       /\ Contains(result.err.msg, call.env.body)

(***************************************************************************)
(* C2: a non-2xx response whose body decodes to the envelope with          *)
(* success = false makes the list and single-asset calls return the        *)
(* generic "Not success" error and a nil result.                           *)
(***************************************************************************)
C2_FailureEnvelopeGivesNotSuccess ==
    (/\ ResponseReceived
     /\ ~Is2xx(call.env.status)
     /\ UnmarshalEnvelope(call.env.body).err.isNil
     /\ ~UnmarshalEnvelope(call.env.body).Success)
    => /\ ~result.panic
       /\ result.ret.isNil
       /\ ~result.err.isNil
       /\ result.err.kind = "errorResponse"
       /\ result.err.msg = <<"Not success">>

C2_Witness ==
    /\ ResponseReceived
    /\ call.env.status = 404
    /\ call.env.body = BodyFail
    /\ result.ret.isNil
    /\ result.err.msg = <<"Not success">>

RequestConstructible == call.ctx # "nil" /\ call.address \notin ControlCharStrings

C4_OneRequestWithClientKey ==
    (Done /\ call.method \in RequestMethods /\ RequestConstructible)
    => /\ Len(reqs) = 1
       /\ reqs[1].method = "GET"
       /\ reqs[1].header["Accept"] = "application/json"
       /\ reqs[1].header["X-API-KEY"] = o.APIKey

(***************************************************************************)
(* C5: no call of a request method panics; a transport error or the        *)
(* cancellation of the context comes back as that error.                   *)
(***************************************************************************)
C5_FailuresAreErrorValues ==
    (Done /\ call.method \in RequestMethods)
    => /\ ~result.panic
       /\ (Len(reqs) > 0 /\ call.ctx = "canceled") => result.err = CanceledErr
       /\ (Len(reqs) > 0 /\ call.ctx = "live" /\ call.env.kind = "error")
              => result.err = DialErr

(***************************************************************************)
(* C10: GetAssetsWithContext and GetSingleAssetWithContext return a nil    *)
(* result whenever they return an error.                                   *)
(***************************************************************************)
C10_NilResultWithError ==
    (/\ Done
     /\ call.method \in {"GetAssetsWithContext", "GetSingleAssetWithContext"}
     /\ ~result.panic
     /\ ~result.err.isNil)
    => result.ret.isNil

(***************************************************************************)
(* C6: owner is emitted exactly when Owner is present and not the null     *)
(* sentinel, asset_contract_address exactly when AssetContractAddress is;  *)
(* each key carries its own field's value.                                 *)
(***************************************************************************)
C6_AddressKeysGatedByOwnField ==
    Encoded
    => /\ Emits("owner") <=> Present(p.Owner)
       /\ Emits("owner") => ValuesOf("owner") = <<QueryEscape(AddressString(p.Owner))>>
       /\ Emits("asset_contract_address") <=> Present(p.AssetContractAddress)
       /\ Emits("asset_contract_address")
              => ValuesOf("asset_contract_address")
                     = <<QueryEscape(AddressString(p.AssetContractAddress))>>

(***************************************************************************)
(* C7: asset_contract_addresses has one entry per list element that is     *)
(* not the null (or empty) sentinel, in list order, with the element's     *)
(* address string as value; nothing is emitted when no element qualifies.  *)
(***************************************************************************)
C7_AddressListEntries ==
    Encoded
    => LET kept == SelectSeq(p.AssetContractAddresses.elems, Present)
       IN  ValuesOf("asset_contract_addresses")
               = [i \in 1..Len(kept) |-> QueryEscape(AddressString(kept[i]))]

(***************************************************************************)
(* C8: each of collection, collection_slug, collection_editor and          *)
(* order_direction is emitted exactly when its field is non-empty, with    *)
(* the value of that same field.                                           *)
(***************************************************************************)
StringKeyFaithful(key, field) ==
    /\ Emits(key) <=> field # ""
    /\ Emits(key) => ValuesOf(key) = <<QueryEscape(field)>>

C8_StringKeysCarryOwnField ==
    (Encoded /\ rev = RevClient)
    => /\ StringKeyFaithful("collection", p.Collection)
       /\ StringKeyFaithful("collection_slug", p.CollectionSlug)
       /\ StringKeyFaithful("collection_editor", p.CollectionEditor)
       /\ StringKeyFaithful("order_direction", p.OrderDirection)

(***************************************************************************)
(* C9: include_orders is emitted, as true or false, exactly when           *)
(* IncludeOrders is set.                                                   *)
(***************************************************************************)
C9_IncludeOrdersWhenSet ==
    (Encoded /\ rev = RevClient)
    => /\ p.IncludeOrders = <<>> => ~Emits("include_orders")
       /\ p.IncludeOrders # <<>>
              => ValuesOf("include_orders") = <<FormatBool(p.IncludeOrders[1])>>

====
